---- MODULE Spec2Model ----
(***************************************************************************)
(* pyalgotrade.stratanalyzer.trades.Trades: the analyzer that turns the    *)
(* stream of order-update events into completed trades.                    *)
(*                                                                         *)
(* Money (prices, commissions, cash, cost) is kept in units of 1/Scale,    *)
(* Scale being a common multiple of every leg size the model can reach,    *)
(* so that commission / float(shares) is an exact integer quotient.        *)
(* A return (netProfit / float(cost)) is kept as a reduced fraction        *)
(* <<numerator, denominator>> with a positive denominator.                 *)
(***************************************************************************)
EXTENDS Integers, Sequences, FiniteSets, TLC

\* ----------------------------------------------------------------- bounds
MaxShares == 2
MaxEvents == 3

Instruments == {"XYZ", "ABC"}
OrderPrices == {1, 2}
OrderCommissions == {0, 1}
OrderQuantities == {1, 2, 3}

\* broker.Order.Action
BUY == "BUY"
BUY_TO_COVER == "BUY_TO_COVER"
SELL == "SELL"
SELL_SHORT == "SELL_SHORT"
UNKNOWN_ACTION == "UNKNOWN"

\* ------------------------------------------------------------- arithmetic
Abs(x) == IF x < 0 THEN -x ELSE x

Max(x, y) == IF x < y THEN y ELSE x

RECURSIVE GCD(_, _)
GCD(a, b) == IF b = 0 THEN a ELSE GCD(b, a % b)

RECURSIVE LCMUpTo(_)
LCMUpTo(n) == IF n <= 1 THEN 1
              ELSE LET m == LCMUpTo(n - 1) IN (m * n) \div GCD(m, n)

Scale == LCMUpTo(MaxShares)

Money(x) == x * Scale

\* a / float(b); with b = 0 Python raises ZeroDivisionError (see divide) and
\* no quotient is used
FloatDiv(a, b) ==
    IF b > 0 THEN a \div b ELSE IF b < 0 THEN -(a \div (-b)) ELSE 0

\* the float n / d as a reduced fraction
Fraction(n, d) ==
    LET g == GCD(Abs(n), Abs(d))
        s == IF d < 0 THEN -1 ELSE 1
    IN  IF g = 0 THEN <<0, 1>> ELSE <<(s * n) \div g, (s * d) \div g>>

\* --------------------------------------- returns.PositionTracker (collaborator)
PositionTracker == [shares |-> 0, cash |-> 0, cost |-> 0]

getShares(t) == t.shares

buy(t, quantity, price, commission) ==
    LET opened == IF t.shares >= 0 THEN quantity ELSE Max(0, t.shares + quantity)
    IN  [shares |-> t.shares + quantity,
         cash   |-> t.cash - quantity * price - commission,
         cost   |-> t.cost + opened * price]

sell(t, quantity, price, commission) ==
    LET opened == IF t.shares <= 0 THEN quantity ELSE Max(0, quantity - t.shares)
    IN  [shares |-> t.shares - quantity,
         cash   |-> t.cash + quantity * price - commission,
         cost   |-> t.cost + opened * price]

getNetProfit(t, price) == t.cash + t.shares * price

getReturn(t, price) ==
    IF t.cost # 0 THEN Fraction(getNetProfit(t, price), t.cost) ELSE <<0, 1>>

update(t, price) ==
    IF t.shares = 0
    THEN [shares |-> 0, cash |-> 0, cost |-> 0]
    ELSE [shares |-> t.shares, cash |-> -(t.shares * price),
          cost |-> Abs(t.shares) * price]

\* ------------------------------------------------------------------ state
VARIABLES
    all, profits, losses,                       \* self.__all, __profits, __losses
    allReturns, positiveReturns, negativeReturns,
    evenTrades,                                 \* self.__evenTrades
    posTrackers,                                \* self.__posTrackers
    event,                                      \* what the last handler call did
    ledger,                                     \* per instrument: what its fills did
    events,                                     \* order updates delivered so far
    history                                     \* the orders delivered, when logged

accumulators == <<all, profits, losses, allReturns, positiveReturns,
                  negativeReturns, evenTrades>>

vars == <<all, profits, losses, allReturns, positiveReturns, negativeReturns,
          evenTrades, posTrackers, event, ledger, events, history>>

\* the object's fields as one value
Self == [all |-> all, profits |-> profits, losses |-> losses,
         allReturns |-> allReturns, positiveReturns |-> positiveReturns,
         negativeReturns |-> negativeReturns, evenTrades |-> evenTrades,
         posTrackers |-> posTrackers]

\* A handler call in progress: the object's fields, the tracker in hand, the
\* tracker calls issued so far, the divisors of the commission used so far,
\* the shares seen on each entry of __updateTrades, the order of the tracker
\* calls and the entries of __updateTrades, and the exception raised ("" for
\* none).
Call(self, posTracker) ==
    [all |-> self.all, profits |-> self.profits, losses |-> self.losses,
     allReturns |-> self.allReturns, positiveReturns |-> self.positiveReturns,
     negativeReturns |-> self.negativeReturns, evenTrades |-> self.evenTrades,
     posTrackers |-> self.posTrackers, posTracker |-> posTracker,
     calls |-> <<>>, divisors |-> <<>>, recorder |-> <<>>, steps |-> <<>>,
     raised |-> ""]

Raise(c, exception) == [c EXCEPT !.raised = exception]

\* commission / float(shares), evaluated before the call it is an argument of
divide(c, shares) ==
    [c EXCEPT !.divisors = Append(@, shares),
              !.raised = IF shares = 0 THEN "ZeroDivisionError" ELSE @]

\* posTracker.buy(quantity, price, commission)
callBuy(c, quantity, price, commission) ==
    IF c.raised # "" THEN c ELSE
    [c EXCEPT !.posTracker = buy(@, quantity, price, commission),
              !.steps = Append(@, "buy"),
              !.calls = Append(@, [op |-> "buy", quantity |-> quantity,
                                   price |-> price, commission |-> commission])]

\* posTracker.sell(quantity, price, commission)
callSell(c, quantity, price, commission) ==
    IF c.raised # "" THEN c ELSE
    [c EXCEPT !.posTracker = sell(@, quantity, price, commission),
              !.steps = Append(@, "sell"),
              !.calls = Append(@, [op |-> "sell", quantity |-> quantity,
                                   price |-> price, commission |-> commission])]

\* ------------------------------------------------ variants of __updateTrades
\* the loss branch appends its return to the positive returns
updateTrades_returnsMixed(c) ==
    LET price == 0
        posTracker == c.posTracker
        entered == [c EXCEPT !.recorder = Append(@, getShares(posTracker)),
                             !.steps = Append(@, "updateTrades")]
    IN  IF getShares(posTracker) # 0 THEN Raise(entered, "AssertionError")
        ELSE
        LET netProfit == getNetProfit(posTracker, price)
            netReturn == getReturn(posTracker, price)
            classified ==
                IF netProfit > 0
                THEN [entered EXCEPT !.profits = Append(@, netProfit),
                                     !.positiveReturns = Append(@, netReturn)]
                ELSE IF netProfit < 0
                THEN [entered EXCEPT !.losses = Append(@, netProfit),
                                     !.positiveReturns = Append(@, netReturn)]
                ELSE [entered EXCEPT !.evenTrades = @ + 1]
        IN  [classified EXCEPT !.all = Append(@, netProfit),
                               !.allReturns = Append(@, netReturn),
                               !.posTracker = update(posTracker, price)]

\* the profit test is netProfit >= 0
updateTrades_geq(c) ==
    LET price == 0
        posTracker == c.posTracker
        entered == [c EXCEPT !.recorder = Append(@, getShares(posTracker)),
                             !.steps = Append(@, "updateTrades")]
    IN  IF getShares(posTracker) # 0 THEN Raise(entered, "AssertionError")
        ELSE
        LET netProfit == getNetProfit(posTracker, price)
            netReturn == getReturn(posTracker, price)
            classified ==
                IF netProfit >= 0
                THEN [entered EXCEPT !.profits = Append(@, netProfit),
                                     !.positiveReturns = Append(@, netReturn)]
                ELSE IF netProfit < 0
                THEN [entered EXCEPT !.losses = Append(@, netProfit),
                                     !.negativeReturns = Append(@, netReturn)]
                ELSE [entered EXCEPT !.evenTrades = @ + 1]
        IN  [classified EXCEPT !.all = Append(@, netProfit),
                               !.allReturns = Append(@, netReturn),
                               !.posTracker = update(posTracker, price)]

\* ------------------------------------------------------- Trades.__updateTrades
\* variant: the net profit is inserted at the front of the list
updateTrades_prepend(c) ==
    LET price == 0
        posTracker == c.posTracker
        entered == [c EXCEPT !.recorder = Append(@, getShares(posTracker)),
                             !.steps = Append(@, "updateTrades")]
    IN  IF getShares(posTracker) # 0 THEN Raise(entered, "AssertionError")
        ELSE
        LET netProfit == getNetProfit(posTracker, price)
            netReturn == getReturn(posTracker, price)
            classified ==
                IF netProfit > 0
                THEN [entered EXCEPT !.profits = Append(@, netProfit),
                                     !.positiveReturns = Append(@, netReturn)]
                ELSE IF netProfit < 0
                THEN [entered EXCEPT !.losses = Append(@, netProfit),
                                     !.negativeReturns = Append(@, netReturn)]
                ELSE [entered EXCEPT !.evenTrades = @ + 1]
        IN  [classified EXCEPT !.all = <<netProfit>> \o @,
                               !.allReturns = Append(@, netReturn),
                               !.posTracker = update(posTracker, price)]

\* variant: the tracker is not rebased after the trade is recorded
updateTrades_noUpdate(c) ==
    LET price == 0
        posTracker == c.posTracker
        entered == [c EXCEPT !.recorder = Append(@, getShares(posTracker)),
                             !.steps = Append(@, "updateTrades")]
    IN  IF getShares(posTracker) # 0 THEN Raise(entered, "AssertionError")
        ELSE
        LET netProfit == getNetProfit(posTracker, price)
            netReturn == getReturn(posTracker, price)
            classified ==
                IF netProfit > 0
                THEN [entered EXCEPT !.profits = Append(@, netProfit),
                                     !.positiveReturns = Append(@, netReturn)]
                ELSE IF netProfit < 0
                THEN [entered EXCEPT !.losses = Append(@, netProfit),
                                     !.negativeReturns = Append(@, netReturn)]
                ELSE [entered EXCEPT !.evenTrades = @ + 1]
        IN  [classified EXCEPT !.all = Append(@, netProfit),
                               !.allReturns = Append(@, netReturn),
                               !.posTracker = posTracker]

updateTrades(c) ==
    LET price == 0
        posTracker == c.posTracker
        entered == [c EXCEPT !.recorder = Append(@, getShares(posTracker)),
                             !.steps = Append(@, "updateTrades")]
    IN  IF getShares(posTracker) # 0 THEN Raise(entered, "AssertionError")
        ELSE
        LET netProfit == getNetProfit(posTracker, price)
            netReturn == getReturn(posTracker, price)
            classified ==
                IF netProfit > 0
                THEN [entered EXCEPT !.profits = Append(@, netProfit),
                                     !.positiveReturns = Append(@, netReturn)]
                ELSE IF netProfit < 0
                THEN [entered EXCEPT !.losses = Append(@, netProfit),
                                     !.negativeReturns = Append(@, netReturn)]
                ELSE [entered EXCEPT !.evenTrades = @ + 1]
        IN  [classified EXCEPT !.all = Append(@, netProfit),
                               !.allReturns = Append(@, netReturn),
                               !.posTracker = update(posTracker, price)]

\* --------------------------------------------------- Trades.__updatePosTracker
\* variant: the partial-exit test is newShares < 0
updateLong_swapped(c, currentShares, price, commission, quantity) ==
    IF quantity > 0
    THEN callBuy(c, quantity, price, commission)
    ELSE
    LET newShares == currentShares + quantity
    IN  IF newShares = 0
        THEN updateTrades(callSell(c, currentShares, price, commission))
        ELSE IF newShares < 0
        THEN callSell(c, quantity * (-1), price, commission)
        ELSE
        LET leg1 == callSell(divide(c, currentShares), currentShares, price,
                             FloatDiv(commission, currentShares))
            done == IF leg1.raised # "" THEN leg1 ELSE updateTrades(leg1)
        IN  IF done.raised # "" THEN done
            ELSE callSell(divide(done, newShares * (-1)), newShares * (-1), price,
                          FloatDiv(commission, newShares * (-1)))

\* variant: the full exit does not call __updateTrades
updateLong_noRecord(c, currentShares, price, commission, quantity) ==
    IF quantity > 0
    THEN callBuy(c, quantity, price, commission)
    ELSE
    LET newShares == currentShares + quantity
    IN  IF newShares = 0
        THEN callSell(c, currentShares, price, commission)
        ELSE IF newShares > 0
        THEN callSell(c, quantity * (-1), price, commission)
        ELSE
        LET leg1 == callSell(divide(c, currentShares), currentShares, price,
                             FloatDiv(commission, currentShares))
            done == IF leg1.raised # "" THEN leg1 ELSE updateTrades(leg1)
        IN  IF done.raised # "" THEN done
            ELSE callSell(divide(done, newShares * (-1)), newShares * (-1), price,
                          FloatDiv(commission, newShares * (-1)))

\* variant: the second leg divides the commission by currentShares
updateLong_leg2Commission(c, currentShares, price, commission, quantity) ==
    IF quantity > 0
    THEN callBuy(c, quantity, price, commission)
    ELSE
    LET newShares == currentShares + quantity
    IN  IF newShares = 0
        THEN updateTrades(callSell(c, currentShares, price, commission))
        ELSE IF newShares > 0
        THEN callSell(c, quantity * (-1), price, commission)
        ELSE
        LET leg1 == callSell(divide(c, currentShares), currentShares, price,
                             FloatDiv(commission, currentShares))
            done == IF leg1.raised # "" THEN leg1 ELSE updateTrades(leg1)
        IN  IF done.raised # "" THEN done
            ELSE callSell(divide(done, currentShares), newShares * (-1), price,
                          FloatDiv(commission, currentShares))

\* variant: the partial exit passes the negative quantity
updateLong_partialSign(c, currentShares, price, commission, quantity) ==
    IF quantity > 0
    THEN callBuy(c, quantity, price, commission)
    ELSE
    LET newShares == currentShares + quantity
    IN  IF newShares = 0
        THEN updateTrades(callSell(c, currentShares, price, commission))
        ELSE IF newShares > 0
        THEN callSell(c, quantity, price, commission)
        ELSE
        LET leg1 == callSell(divide(c, currentShares), currentShares, price,
                             FloatDiv(commission, currentShares))
            done == IF leg1.raised # "" THEN leg1 ELSE updateTrades(leg1)
        IN  IF done.raised # "" THEN done
            ELSE callSell(divide(done, newShares * (-1)), newShares * (-1), price,
                          FloatDiv(commission, newShares * (-1)))

\* variant: the flip calls __updateTrades after the second sell
updateLong_recordLast(c, currentShares, price, commission, quantity) ==
    IF quantity > 0
    THEN callBuy(c, quantity, price, commission)
    ELSE
    LET newShares == currentShares + quantity
    IN  IF newShares = 0
        THEN updateTrades(callSell(c, currentShares, price, commission))
        ELSE IF newShares > 0
        THEN callSell(c, quantity * (-1), price, commission)
        ELSE
        LET leg1 == callSell(divide(c, currentShares), currentShares, price,
                             FloatDiv(commission, currentShares))
            done == leg1
        IN  IF done.raised # "" THEN done
            ELSE updateTrades(
                     callSell(divide(done, newShares * (-1)), newShares * (-1),
                              price, FloatDiv(commission, newShares * (-1))))

\* current position is long
updateLong(c, currentShares, price, commission, quantity) ==
    IF quantity > 0
    THEN callBuy(c, quantity, price, commission)
    ELSE
    LET newShares == currentShares + quantity
    IN  IF newShares = 0
        THEN updateTrades(callSell(c, currentShares, price, commission))
        ELSE IF newShares > 0
        THEN callSell(c, quantity * (-1), price, commission)
        ELSE
        LET leg1 == callSell(divide(c, currentShares), currentShares, price,
                             FloatDiv(commission, currentShares))
            done == IF leg1.raised # "" THEN leg1 ELSE updateTrades(leg1)
        IN  IF done.raised # "" THEN done
            ELSE callSell(divide(done, newShares * (-1)), newShares * (-1), price,
                          FloatDiv(commission, newShares * (-1)))

\* variant: the second leg buys the whole quantity
updateShort_leg2Quantity(c, currentShares, price, commission, quantity) ==
    IF quantity < 0
    THEN callSell(c, quantity * (-1), price, commission)
    ELSE
    LET newShares == currentShares + quantity
    IN  IF newShares = 0
        THEN updateTrades(callBuy(c, currentShares * (-1), price, commission))
        ELSE IF newShares < 0
        THEN callBuy(c, quantity, price, commission)
        ELSE
        LET leg1 == callBuy(divide(c, currentShares * (-1)), currentShares * (-1), price,
                            FloatDiv(commission, currentShares * (-1)))
            done == IF leg1.raised # "" THEN leg1 ELSE updateTrades(leg1)
        IN  IF done.raised # "" THEN done
            ELSE callBuy(divide(done, newShares), quantity, price, FloatDiv(commission, newShares))

\* variant: the full cover buys currentShares, not currentShares * -1
updateShort_coverSign(c, currentShares, price, commission, quantity) ==
    IF quantity < 0
    THEN callSell(c, quantity * (-1), price, commission)
    ELSE
    LET newShares == currentShares + quantity
    IN  IF newShares = 0
        THEN updateTrades(callBuy(c, currentShares, price, commission))
        ELSE IF newShares < 0
        THEN callBuy(c, quantity, price, commission)
        ELSE
        LET leg1 == callBuy(divide(c, currentShares * (-1)), currentShares * (-1), price,
                            FloatDiv(commission, currentShares * (-1)))
            done == IF leg1.raised # "" THEN leg1 ELSE updateTrades(leg1)
        IN  IF done.raised # "" THEN done
            ELSE callBuy(divide(done, newShares), newShares, price, FloatDiv(commission, newShares))

\* variant: the full cover leaves the commission out
updateShort_coverNoCommission(c, currentShares, price, commission, quantity) ==
    IF quantity < 0
    THEN callSell(c, quantity * (-1), price, commission)
    ELSE
    LET newShares == currentShares + quantity
    IN  IF newShares = 0
        THEN updateTrades(callBuy(c, currentShares * (-1), price, 0))
        ELSE IF newShares < 0
        THEN callBuy(c, quantity, price, commission)
        ELSE
        LET leg1 == callBuy(divide(c, currentShares * (-1)), currentShares * (-1), price,
                            FloatDiv(commission, currentShares * (-1)))
            done == IF leg1.raised # "" THEN leg1 ELSE updateTrades(leg1)
        IN  IF done.raised # "" THEN done
            ELSE callBuy(divide(done, newShares), newShares, price, FloatDiv(commission, newShares))

\* variant: the first leg of the flip takes the whole commission
updateShort_leg1Whole(c, currentShares, price, commission, quantity) ==
    IF quantity < 0
    THEN callSell(c, quantity * (-1), price, commission)
    ELSE
    LET newShares == currentShares + quantity
    IN  IF newShares = 0
        THEN updateTrades(callBuy(c, currentShares * (-1), price, commission))
        ELSE IF newShares < 0
        THEN callBuy(c, quantity, price, commission)
        ELSE
        LET leg1 == callBuy(divide(c, currentShares * (-1)), currentShares * (-1), price,
                            commission)
            done == IF leg1.raised # "" THEN leg1 ELSE updateTrades(leg1)
        IN  IF done.raised # "" THEN done
            ELSE callBuy(divide(done, newShares), newShares, price, FloatDiv(commission, newShares))

\* variant: the second leg of the flip takes the whole commission
updateShort_flipUndivided(c, currentShares, price, commission, quantity) ==
    IF quantity < 0
    THEN callSell(c, quantity * (-1), price, commission)
    ELSE
    LET newShares == currentShares + quantity
    IN  IF newShares = 0
        THEN updateTrades(callBuy(c, currentShares * (-1), price, commission))
        ELSE IF newShares < 0
        THEN callBuy(c, quantity, price, commission)
        ELSE
        LET leg1 == callBuy(divide(c, currentShares * (-1)), currentShares * (-1), price,
                            FloatDiv(commission, currentShares * (-1)))
            done == IF leg1.raised # "" THEN leg1 ELSE updateTrades(leg1)
        IN  IF done.raised # "" THEN done
            ELSE callBuy(divide(done, newShares), newShares, price, commission)

\* current position is short
updateShort(c, currentShares, price, commission, quantity) ==
    IF quantity < 0
    THEN callSell(c, quantity * (-1), price, commission)
    ELSE
    LET newShares == currentShares + quantity
    IN  IF newShares = 0
        THEN updateTrades(callBuy(c, currentShares * (-1), price, commission))
        ELSE IF newShares < 0
        THEN callBuy(c, quantity, price, commission)
        ELSE
        LET leg1 == callBuy(divide(c, currentShares * (-1)), currentShares * (-1), price,
                            FloatDiv(commission, currentShares * (-1)))
            done == IF leg1.raised # "" THEN leg1 ELSE updateTrades(leg1)
        IN  IF done.raised # "" THEN done
            ELSE callBuy(divide(done, newShares), newShares, price, FloatDiv(commission, newShares))

\* variant: the opening sell passes the negative quantity
updateFlat_unsigned(c, price, commission, quantity) ==
    IF quantity > 0
    THEN callBuy(c, quantity, price, commission)
    ELSE callSell(c, quantity, price, commission)

\* no position
updateFlat(c, price, commission, quantity) ==
    IF quantity > 0
    THEN callBuy(c, quantity, price, commission)
    ELSE callSell(c, quantity * (-1), price, commission)

updatePosTracker(c, price, commission, quantity) ==
    LET currentShares == getShares(c.posTracker)
    IN  IF currentShares > 0
        THEN updateLong(c, currentShares, price, commission, quantity)
        ELSE IF currentShares < 0
        THEN updateShort(c, currentShares, price, commission, quantity)
        ELSE updateFlat(c, price, commission, quantity)

\* ----------------------------------------------------- Trades.__onOrderUpdate
\* try: self.__posTrackers[instrument]  except KeyError: create and store
lookupTracker(self, instrument) ==
    IF instrument \in DOMAIN self.posTrackers
    THEN self
    ELSE [self EXCEPT !.posTrackers =
              [i \in DOMAIN self.posTrackers \cup {instrument} |->
                  IF i = instrument THEN PositionTracker ELSE self.posTrackers[i]]]

\* variant: the final else does not assert, any other action sells
unknownAction_none(action) == FALSE

\* the action falls in neither list: the final else, assert(False)
unknownAction(action) ==
    ~(action \in {BUY, BUY_TO_COVER}) /\ ~(action \in {SELL, SELL_SHORT})

\* variant: BUY_TO_COVER is missing from the buy list
signedQuantity_coverOmitted(action, quantity) ==
    IF action \in {BUY} THEN quantity ELSE quantity * (-1)

\* the signed quantity of an order whose action is in one of the two lists
signedQuantity(action, quantity) ==
    IF action \in {BUY, BUY_TO_COVER} THEN quantity ELSE quantity * (-1)

\* variant: one tracker object is stored under every instrument
storeTracker_everywhere(c, instrument) ==
    [c EXCEPT !.posTrackers = [j \in DOMAIN @ |-> c.posTracker]]

\* the tracker in hand is the object stored in the dict
storeTracker(c, instrument) ==
    [c EXCEPT !.posTrackers = [@ EXCEPT ![instrument] = c.posTracker]]

\* variant: the action is checked before the tracker is looked up
onFilledOrder_actionFirst(self, order) ==
    LET found == lookupTracker(self, order.instrument)
        c == Call(found, found.posTrackers[order.instrument])
        price == Money(order.price)
        commission == Money(order.commission)
    IN  IF unknownAction(order.action)
        THEN Raise(Call(self, PositionTracker), "AssertionError")
        ELSE storeTracker(
                 updatePosTracker(c, price, commission,
                                  signedQuantity(order.action, order.quantity)),
                 order.instrument)

\* the handler from the tracker lookup on
onFilledOrder(self, order) ==
    LET found == lookupTracker(self, order.instrument)
        c == Call(found, found.posTrackers[order.instrument])
        price == Money(order.price)
        commission == Money(order.commission)
    IN  IF unknownAction(order.action)
        THEN Raise(c, "AssertionError")
        ELSE storeTracker(
                 updatePosTracker(c, price, commission,
                                  signedQuantity(order.action, order.quantity)),
                 order.instrument)

\* variant: the tracker is looked up before the isFilled test
onOrderUpdate_lookupFirst(self, order) ==
    IF ~order.filled
    THEN Call(lookupTracker(self, order.instrument), PositionTracker)
    ELSE onFilledOrder(self, order)

onOrderUpdate(self, order) ==
    IF ~order.filled
    THEN Call(self, PositionTracker)
    ELSE onFilledOrder(self, order)

\* ------------------------------------------------------------ read surface
getCount == Len(all)
getProfitableCount == Len(profits)
getUnprofitableCount == Len(losses)
getEvenCount == evenTrades
\* np.array(self.__x): a copy of the list
getAll == all
getProfits == profits
getLosses == losses
getAllReturns == allReturns
getPositiveReturns == positiveReturns
getNegativeReturns == negativeReturns

Accessors == {"getCount", "getProfitableCount", "getUnprofitableCount",
              "getEvenCount", "getAll", "getProfits", "getLosses",
              "getAllReturns", "getPositiveReturns", "getNegativeReturns"}

\* what an accessor returns
returned(accessor) ==
    CASE accessor = "getCount" -> getCount
      [] accessor = "getProfitableCount" -> getProfitableCount
      [] accessor = "getUnprofitableCount" -> getUnprofitableCount
      [] accessor = "getEvenCount" -> getEvenCount
      [] accessor = "getAll" -> getAll
      [] accessor = "getProfits" -> getProfits
      [] accessor = "getLosses" -> getLosses
      [] accessor = "getAllReturns" -> getAllReturns
      [] accessor = "getPositiveReturns" -> getPositiveReturns
      [] accessor = "getNegativeReturns" -> getNegativeReturns

\* ------------------------------------------------------------- the machine
\* The orders the model delivers. The first instrument gets every quantity,
\* price and commission with BUY and SELL, and every quantity with
\* BUY_TO_COVER and SELL_SHORT, and the fill that flips the largest position
\* into its opposite; the second instrument gets the small fills that open,
\* close and flip a position beside the first one's.
FilledOrders ==
    [filled : {TRUE}, instrument : {"XYZ"}, action : {BUY, SELL},
     quantity : OrderQuantities, price : OrderPrices,
     commission : OrderCommissions]
    \cup
    [filled : {TRUE}, instrument : {"XYZ"}, action : {BUY_TO_COVER, SELL_SHORT},
     quantity : OrderQuantities, price : {1}, commission : {1}]
    \cup
    [filled : {TRUE}, instrument : {"XYZ"}, action : {BUY, SELL},
     quantity : {2 * MaxShares}, price : {1}, commission : {1}]
    \cup
    [filled : {TRUE}, instrument : {"ABC"}, action : {BUY, SELL},
     quantity : {1, 2}, price : OrderPrices, commission : {0}]

UnfilledOrders == [filled : {FALSE}, instrument : Instruments, action : {BUY},
                   quantity : {1}, price : {1}, commission : {0}]

UnknownOrders == [filled : {TRUE}, instrument : Instruments,
                  action : {UNKNOWN_ACTION},
                  quantity : {1}, price : {1}, commission : {0}]

Orders == FilledOrders \cup UnfilledOrders \cup UnknownOrders

NoOrder == [filled |-> FALSE, instrument |-> "XYZ", action |-> BUY,
            quantity |-> 1, price |-> 1, commission |-> 0]

sharesOf(trackers, instrument) ==
    IF instrument \in DOMAIN trackers THEN getShares(trackers[instrument]) ELSE 0

NoEvent == [kind |-> "none", order |-> NoOrder, hadTracker |-> FALSE,
            currentShares |-> 0, count |-> 0, calls |-> <<>>,
            divisors |-> <<>>, recorder |-> <<>>, steps |-> <<>>,
            raised |-> ""]

\* Per instrument: whether a fill opened it, whether its shares were 0 after a
\* fill, its sign changes, its completed trades, and the
\* <<netProfit, netReturn>> recorded for it.
NoLedger == [opened |-> FALSE, flat |-> FALSE, flips |-> 0, trades |-> 0,
             recorded |-> <<>>]

\* the entries a call appended to all and allReturns, paired
appended(self, c) ==
    [k \in 1 .. (Len(c.all) - Len(self.all)) |->
        <<c.all[Len(self.all) + k], c.allReturns[Len(self.allReturns) + k]>>]

Init ==
    /\ all = <<>> /\ profits = <<>> /\ losses = <<>>
    /\ allReturns = <<>> /\ positiveReturns = <<>> /\ negativeReturns = <<>>
    /\ evenTrades = 0
    /\ posTrackers = [i \in {} |-> PositionTracker]
    /\ event = NoEvent
    /\ ledger = [i \in Instruments |-> NoLedger]
    /\ events = 0
    /\ history = <<>>

\* the bounds of the model: at most MaxEvents order updates are delivered and
\* the position stays within MaxShares
WithinBounds(order) ==
    /\ events < MaxEvents
    /\ order.filled /\ ~unknownAction(order.action) =>
           Abs(sharesOf(posTrackers, order.instrument)
               + signedQuantity(order.action, order.quantity)) <= MaxShares

eventKind(order, c) ==
    IF ~order.filled THEN "ignored"
    ELSE IF c.raised # "" THEN "aborted" ELSE "filled"

OnOrderUpdate(order) ==
    /\ WithinBounds(order)
    /\ LET c == onOrderUpdate(Self, order)
           i == order.instrument
           before == sharesOf(posTrackers, i)
           after == sharesOf(c.posTrackers, i)
           kind == eventKind(order, c)
       IN  /\ all' = c.all
           /\ profits' = c.profits
           /\ losses' = c.losses
           /\ allReturns' = c.allReturns
           /\ positiveReturns' = c.positiveReturns
           /\ negativeReturns' = c.negativeReturns
           /\ evenTrades' = c.evenTrades
           /\ posTrackers' = c.posTrackers
           /\ event' = [kind |-> kind, order |-> order,
                        hadTracker |-> i \in DOMAIN posTrackers,
                        currentShares |-> before, count |-> Len(all),
                        calls |-> c.calls, divisors |-> c.divisors,
                        recorder |-> c.recorder, steps |-> c.steps,
                        raised |-> c.raised]
           /\ events' = events + 1
           /\ ledger' =
                IF kind # "filled" THEN ledger
                ELSE [ledger EXCEPT ![i] =
                        [opened  |-> TRUE,
                         flat    |-> @.flat \/ after = 0,
                         flips   |-> @.flips + (IF before * after < 0 THEN 1 ELSE 0),
                         trades  |-> @.trades + (Len(c.all) - Len(all)),
                         recorded |-> @.recorded \o appended(Self, c)]]

\* an accessor of the read surface is called
Read(accessor) ==
    /\ events < MaxEvents
    /\ returned(accessor) = returned(accessor)
    /\ event' = [NoEvent EXCEPT !.kind = "read"]
    /\ events' = events + 1
    /\ UNCHANGED <<accumulators, posTrackers, ledger, history>>

\* the order-updated event of the broker calls the handler
Deliver(order) == OnOrderUpdate(order) /\ UNCHANGED history

Next ==
    \/ \E order \in Orders : Deliver(order)
    \/ \E accessor \in Accessors : Read(accessor)

Spec == Init /\ [][Next]_vars

\* ------------------------------------------- the machine with its history
\* The same handler, with every delivered order logged, over fills of both
\* instruments: the first one's fills open, add, reduce, close and flip with
\* two price/commission pairs, the second one's run beside them.
SeqOrders ==
    [filled : {TRUE}, instrument : {"XYZ"}, action : {BUY, SELL},
     quantity : OrderQuantities \cup {2 * MaxShares},
     price : {1}, commission : {0}]
    \cup
    [filled : {TRUE}, instrument : {"XYZ"}, action : {BUY, SELL},
     quantity : OrderQuantities \cup {2 * MaxShares},
     price : {2}, commission : {1}]
    \cup
    [filled : {TRUE}, instrument : {"ABC"}, action : {BUY, SELL},
     quantity : {1, 2}, price : {1}, commission : {0}]

DeliverLogged(order) ==
    /\ OnOrderUpdate(order)
    /\ history' = Append(history, order)

NextSeq == \E order \in SeqOrders : DeliverLogged(order)

SpecSeq == Init /\ [][NextSeq]_vars

\* a newly constructed Trades
Fresh == [all |-> <<>>, profits |-> <<>>, losses |-> <<>>,
          allReturns |-> <<>>, positiveReturns |-> <<>>,
          negativeReturns |-> <<>>, evenTrades |-> 0,
          posTrackers |-> [i \in {} |-> PositionTracker]]

\* the object's fields when a handler call has returned or raised
fieldsOf(c) ==
    [all |-> c.all, profits |-> c.profits, losses |-> c.losses,
     allReturns |-> c.allReturns, positiveReturns |-> c.positiveReturns,
     negativeReturns |-> c.negativeReturns, evenTrades |-> c.evenTrades,
     posTrackers |-> c.posTrackers]

\* the object after the handler was called with an order
handled(self, order) == fieldsOf(onOrderUpdate(self, order))

\* the object after the handler was called with each order in turn (each
\* intermediate object is bound as a value before the next call)
RECURSIVE Replay(_, _)
Replay(self, orders) ==
    IF orders = <<>> THEN self
    ELSE CHOOSE last \in {Replay(next, Tail(orders)) :
                             next \in {handled(self, Head(orders))}} : TRUE

\* what a handler call did to an instrument: its shares and the number of
\* trades afterwards, and the tracker calls issued
observed(c, instrument) ==
    [shares |-> sharesOf(c.posTrackers, instrument),
     trades |-> Len(c.all),
     calls |-> c.calls,
     raised |-> c.raised]

\* the observations of the handler calls of a replay
RECURSIVE Trace(_, _, _)
Trace(self, orders, instrument) ==
    IF orders = <<>> THEN <<>>
    ELSE CHOOSE steps \in
             {<<observed(c, instrument)>>
                  \o Trace(fieldsOf(c), Tail(orders), instrument) :
              c \in {onOrderUpdate(self, Head(orders))}} : TRUE

\* ----------------------------------------------------------- the contract
\* The last event in the specification's words: the signed delta of its
\* order, the position before it, the position the table calls newShares,
\* the position the ledger holds now, the trades it completed.
DeltaOf(order) ==
    IF order.action \in {BUY, BUY_TO_COVER} THEN order.quantity
    ELSE 0 - order.quantity

Recognised(order) == order.action \in {BUY, BUY_TO_COVER, SELL, SELL_SHORT}

Filled == event.kind = "filled"
Instrument == event.order.instrument
Delta == DeltaOf(event.order)
CurrentShares == event.currentShares
NewShares == CurrentShares + Delta
Shares == sharesOf(posTrackers, Instrument)
Completed == Len(all) - event.count

\* C1: after a filled order with a recognised action is processed, the
\* instrument's tracker holds newShares = (shares before) + delta, delta being
\* +quantity for BUY/BUY_TO_COVER and -quantity for SELL/SELL_SHORT.
C1_SharesAreNewShares == Filled => Shares = NewShares

\* a short-to-long flip has been processed
C1_Witness ==
    Filled /\ CurrentShares < 0 /\ NewShares > 0 /\ Shares = NewShares

\* C2 as stated: a fill completes a trade (the recorder runs, getCount grows)
\* if and only if newShares = 0.
C2_CompletionIffNewSharesZero ==
    Filled => ((Completed > 0 /\ Len(event.recorder) > 0) <=> NewShares = 0)

\* C2 amended: a fill completes a trade if and only if it closes the open
\* position, that is currentShares # 0 and newShares is 0 or of the opposite
\* sign; the recorder then runs once and getCount grows by one, and otherwise
\* the recorder does not run and getCount is unchanged.
C2_CompletionIffPositionClosed ==
    Filled =>
        IF CurrentShares # 0 /\ CurrentShares * NewShares <= 0
        THEN Completed = 1 /\ Len(event.recorder) = 1
        ELSE Completed = 0 /\ event.recorder = <<>>

\* a full exit of a long position has completed a trade
C2_Witness == Filled /\ CurrentShares > 0 /\ NewShares = 0 /\ Completed = 1

\* C3 as stated: an instrument whose shares were never 0 after a fill has no
\* completed trade, whatever the sign changes of its position.
C3_NoTradeWhileNeverFlat ==
    \A i \in Instruments :
        ledger[i].opened /\ ~ledger[i].flat => ledger[i].trades = 0

\* C3 amended: an instrument whose shares were never 0 after a fill has
\* exactly one completed trade per sign change of its position, hence none
\* while the position keeps its sign.
C3_TradesAreFlipsWhileNeverFlat ==
    \A i \in Instruments :
        ledger[i].opened /\ ~ledger[i].flat => ledger[i].trades = ledger[i].flips

\* an instrument was opened, reduced or increased, never flat, never flipped
C3_Witness ==
    \E i \in Instruments :
        /\ ledger[i].opened /\ ~ledger[i].flat
        /\ ledger[i].flips = 0 /\ ledger[i].trades = 0
        /\ Filled /\ Instrument = i /\ CurrentShares # 0

\* C4: count conservation of the accumulators in every state.
C4_CountConservation ==
    /\ Len(all) = Len(profits) + Len(losses) + evenTrades
    /\ Len(all) = Len(allReturns)
    /\ Len(positiveReturns) = Len(profits)
    /\ Len(negativeReturns) = Len(losses)
    /\ getCount = getProfitableCount + getUnprofitableCount + getEvenCount

\* a profitable and an unprofitable trade have been recorded
C4_Witness == Len(all) = 2 /\ Len(profits) = 1 /\ Len(losses) = 1

\* C5: a fill that flips the position completes exactly one trade, leaves
\* shares = newShares, and issues two calls in the direction of the fill:
\* |currentShares| shares at commission / |currentShares|, then |newShares|
\* shares at commission / |newShares|.
C5_FlipDecomposition ==
    Filled /\ CurrentShares * NewShares < 0 =>
        /\ Completed = 1
        /\ Shares = NewShares
        /\ Len(event.calls) = 2
        /\ \A k \in {1, 2} :
               event.calls[k].op = (IF Delta < 0 THEN "sell" ELSE "buy")
        /\ event.calls[1].quantity = Abs(CurrentShares)
        /\ event.calls[2].quantity = Abs(NewShares)
        /\ event.calls[1].commission * Abs(CurrentShares)
               = Money(event.order.commission)
        /\ event.calls[2].commission * Abs(NewShares)
               = Money(event.order.commission)

\* long 2, sell 3 with a commission: legs of different sizes
C5_Witness ==
    /\ Filled /\ CurrentShares = 2 /\ NewShares = -1
    /\ event.order.commission = 1 /\ Completed = 1

\* C6: an order update whose order is not filled changes neither the ledger
\* (its keys, its trackers) nor any accumulator.
C6_UnfilledNoOp ==
    [][~event'.order.filled => UNCHANGED <<posTrackers, accumulators>>]_vars

\* an unfilled order for an instrument without a tracker was delivered after
\* a trade was recorded
C6_Witness ==
    /\ event.kind = "ignored" /\ Instrument \notin DOMAIN posTrackers
    /\ Len(all) >= 1

\* C7: a filled order with an unrecognised action aborts on the assertion,
\* updates no accumulator and issues no buy or sell to any tracker.
C7_UnknownActionRejected ==
    [][event'.order.filled /\ ~Recognised(event'.order) =>
          /\ event'.raised = "AssertionError"
          /\ event'.calls = <<>>
          /\ UNCHANGED accumulators
          /\ \A i \in DOMAIN posTrackers :
                 i \in DOMAIN posTrackers' /\ posTrackers'[i] = posTrackers[i]]_vars

\* an order with an unrecognised action was rejected while a position is open
C7_Witness ==
    /\ event.kind = "aborted" /\ ~Recognised(event.order)
    /\ \E i \in DOMAIN posTrackers : getShares(posTrackers[i]) # 0

\* C8: on filled orders with recognised actions every entry of
\* __updateTrades sees shares = 0, and nothing is raised.
C8_RecorderPrecondition ==
    event.kind # "none" /\ event.order.filled /\ Recognised(event.order) =>
        /\ event.raised = ""
        /\ \A k \in DOMAIN event.recorder : event.recorder[k] = 0

\* a full cover of a short position entered __updateTrades
C8_Witness ==
    Filled /\ CurrentShares < 0 /\ NewShares = 0 /\ Len(event.recorder) = 1

\* C9: every recorded profit is > 0, every recorded loss < 0, every positive
\* return > 0 and every negative return < 0.
C9_SignAgreement ==
    /\ \A k \in DOMAIN profits : profits[k] > 0
    /\ \A k \in DOMAIN losses : losses[k] < 0
    /\ \A k \in DOMAIN positiveReturns : positiveReturns[k][1] > 0
    /\ \A k \in DOMAIN negativeReturns : negativeReturns[k][1] < 0

\* a short trade closed with a loss after a profitable trade
C9_Witness ==
    /\ Len(profits) >= 1 /\ Len(losses) >= 1
    /\ Filled /\ CurrentShares < 0 /\ Completed = 1
    /\ all[Len(all)] < 0

\* C10: a fill of N from a flat or absent position followed by the opposite
\* fill of N on the same instrument adds exactly one completed trade and
\* leaves the instrument's shares at 0.
C10_FlatToFlat ==
    [][(/\ event.kind = "filled" /\ event.currentShares = 0
        /\ events' = events + 1
        /\ event'.kind = "filled"
        /\ event'.order.instrument = event.order.instrument
        /\ DeltaOf(event'.order) = 0 - DeltaOf(event.order))
       => /\ sharesOf(posTrackers', event'.order.instrument) = 0
          /\ Len(all') = event.count + 1]_vars

\* two events: N bought on an absent position, then N sold
C10_Witness ==
    /\ events = 2 /\ Cardinality(DOMAIN posTrackers) = 1
    /\ Filled /\ CurrentShares > 0 /\ NewShares = 0
    /\ Shares = 0 /\ Len(all) = 1

\* a sequence is kept as the beginning of a later one
IsPrefix(s, t) == Len(s) <= Len(t) /\ SubSeq(t, 1, Len(s)) = s

\* C11: across every step each of the six sequences keeps its earlier value
\* as a prefix and evenTrades does not decrease; an accessor changes nothing.
C11_AppendOnly ==
    [][/\ IsPrefix(all, all') /\ IsPrefix(allReturns, allReturns')
       /\ IsPrefix(profits, profits') /\ IsPrefix(losses, losses')
       /\ IsPrefix(positiveReturns, positiveReturns')
       /\ IsPrefix(negativeReturns, negativeReturns')
       /\ evenTrades' >= evenTrades
       /\ event'.kind = "read" => UNCHANGED <<accumulators, posTrackers>>]_vars

\* a second, different trade was appended behind the first
C11_Witness ==
    /\ Filled /\ Completed = 1
    /\ Len(all) = 2 /\ all[1] # all[2]

\* C12: on a filled order with a recognised action nothing is raised, every
\* tracker call has a quantity > 0, is a buy for delta > 0 and a sell for
\* delta < 0, and every divisor of the commission is nonzero (they are
\* |currentShares| and |newShares| of a flip).
C12_CallsWellFormed ==
    event.kind # "none" /\ event.kind # "read"
    /\ event.order.filled /\ Recognised(event.order) =>
        /\ event.raised = ""
        /\ event.calls # <<>>
        /\ \A k \in DOMAIN event.calls :
               /\ event.calls[k].quantity > 0
               /\ event.calls[k].op = (IF Delta > 0 THEN "buy" ELSE "sell")
        /\ \A k \in DOMAIN event.divisors : event.divisors[k] # 0
        /\ event.divisors =
               (IF CurrentShares * NewShares < 0
                THEN <<Abs(CurrentShares), Abs(NewShares)>> ELSE <<>>)

\* a flip divided the commission by both leg sizes
C12_Witness ==
    /\ Filled /\ CurrentShares < 0 /\ NewShares > 0
    /\ event.divisors = <<2, 1>>

\* the orders of the history that are for one instrument, in their order
FillsOf(orders, instrument) ==
    SelectSeq(orders, LAMBDA order : order.instrument = instrument)

\* the <<netProfit, netReturn>> pairs an object has recorded
RecordedBy(self) ==
    [k \in DOMAIN self.all |-> <<self.all[k], self.allReturns[k]>>]

\* an instrument's tracker and recorded trades are those of a newly
\* constructed analyzer given that instrument's orders alone
OwnFillsOnly ==
    \A i \in Instruments :
        LET alone == Replay(Fresh, FillsOf(history, i))
        IN  /\ (i \in DOMAIN posTrackers) = (i \in DOMAIN alone.posTrackers)
            /\ i \in DOMAIN posTrackers => posTrackers[i] = alone.posTrackers[i]
            /\ ledger[i].recorded = RecordedBy(alone)
            /\ ledger[i].trades = Len(alone.all)

\* C13: a fill for one instrument leaves every other instrument's tracker
\* (shares, cash, cost) unchanged and removes no ledger entry; after every
\* step each instrument's tracker and completed trades are those produced by
\* its own subsequence of fills alone, so every interleaving that keeps each
\* instrument's order gives the same per-instrument result.
C13_InstrumentsIndependent ==
    /\ []OwnFillsOnly
    /\ [][\A j \in DOMAIN posTrackers :
              /\ j \in DOMAIN posTrackers'
              /\ j # event'.order.instrument =>
                     posTrackers'[j] = posTrackers[j]]_vars

\* fills of the two instruments were interleaved, the first instrument
\* completed a trade around a fill of the second, which holds a position
C13_Witness ==
    /\ Len(history) = 3
    /\ history[1].instrument = "XYZ" /\ history[2].instrument = "ABC"
    /\ history[3].instrument = "XYZ"
    /\ ledger["XYZ"].trades = 1
    /\ getShares(posTrackers["ABC"]) # 0

\* C14: a fill that does not flip the position issues exactly one tracker
\* call, of |delta| shares (|currentShares| on a full exit or cover) at the
\* undivided commission; a flip issues two calls; no fill issues none or more
\* than two.
C14_TransitionClassification ==
    Filled =>
        IF CurrentShares * NewShares < 0
        THEN Len(event.calls) = 2
        ELSE /\ Len(event.calls) = 1
             /\ event.divisors = <<>>
             /\ event.calls[1].quantity = Abs(Delta)
             /\ NewShares = 0 => event.calls[1].quantity = Abs(CurrentShares)
             /\ event.calls[1].commission = Money(event.order.commission)

\* a partial cover with a commission
C14_Witness ==
    /\ Filled /\ CurrentShares < 0 /\ Delta > 0 /\ NewShares < 0
    /\ event.order.commission = 1 /\ Len(event.calls) = 1

\* the tracker after a sequence of tracker calls
RECURSIVE applied(_, _)
applied(t, calls) ==
    IF calls = <<>> THEN t
    ELSE LET call == Head(calls)
         IN  applied(IF call.op = "buy"
                     THEN buy(t, call.quantity, call.price, call.commission)
                     ELSE sell(t, call.quantity, call.price, call.commission),
                     Tail(calls))

\* C15: in a flip, __updateTrades runs after the first leg and before the
\* second, on a flat tracker; the recorded net profit and return are those of
\* the tracker after the first leg alone (its share of the commission
\* included), and the second leg, with its share of the commission, is all
\* the tracker holds afterwards.
C15_FlipRecordsBetweenLegs ==
    [][LET e == event'
           i == e.order.instrument
           delta == DeltaOf(e.order)
       IN  /\ e.kind \in {"filled", "aborted"}
           /\ e.order.filled /\ Recognised(e.order)
           /\ e.currentShares * (e.currentShares + delta) < 0
           =>
           LET op == IF delta > 0 THEN "buy" ELSE "sell"
               price == Money(e.order.price)
               commission == Money(e.order.commission)
               a == Abs(e.currentShares)
               b == Abs(e.currentShares + delta)
               leg1 == [op |-> op, quantity |-> a, price |-> price,
                        commission |-> FloatDiv(commission, a)]
               leg2 == [op |-> op, quantity |-> b, price |-> price,
                        commission |-> FloatDiv(commission, b)]
               closed == applied(posTrackers[i], <<leg1>>)
           IN  /\ e.raised = ""
               /\ e.steps = <<op, "updateTrades", op>>
               /\ e.recorder = <<0>>
               /\ e.calls = <<leg1, leg2>>
               /\ all' = Append(all, getNetProfit(closed, 0))
               /\ allReturns' = Append(allReturns, getReturn(closed, 0))
               /\ posTrackers'[i] = applied(PositionTracker, <<leg2>>)
               /\ getNetProfit(posTrackers'[i], price) = - leg2.commission]_vars

\* a short position was flipped long by a fill with a commission
C15_Witness ==
    /\ Filled /\ CurrentShares < 0 /\ NewShares > 0
    /\ event.order.commission = 1
    /\ event.steps = <<"buy", "updateTrades", "buy">>
    /\ Completed = 1

\* C16: whenever a trade is recorded, its net profit and return are those of
\* the tracker after the closing call, and afterwards the tracker holds only
\* what the remaining (opening) call of the same fill put into it: after a
\* plain close it is flat with zero cash and zero cost, whatever was traded
\* before.
C16_TrackerRebasedOnCompletion ==
    [][LET e == event'
           i == e.order.instrument
       IN  /\ e.kind \in {"filled", "aborted"}
           /\ e.order.filled /\ Recognised(e.order)
           /\ Len(all') > Len(all)
           =>
           /\ i \in DOMAIN posTrackers
           /\ e.calls # <<>>
           /\ LET closed == applied(posTrackers[i], <<e.calls[1]>>)
                  opening == Tail(e.calls)
              IN  /\ getShares(closed) = 0
                  /\ all' = Append(all, getNetProfit(closed, 0))
                  /\ allReturns' = Append(allReturns, getReturn(closed, 0))
                  /\ posTrackers'[i] = applied(PositionTracker, opening)
                  /\ opening = <<>> =>
                         posTrackers'[i] = [shares |-> 0, cash |-> 0, cost |-> 0]]_vars

\* the second trade of an instrument was closed with a profit or a loss, and
\* the tracker is flat and empty again
C16_Witness ==
    /\ Filled /\ Completed = 1 /\ NewShares = 0
    /\ ledger[Instrument].trades = 2
    /\ all[Len(all)] # 0
    /\ posTrackers[Instrument] = [shares |-> 0, cash |-> 0, cost |-> 0]

\* The flip of the last event in the claim's letters: the leg sizes, the
\* commission of the order and the commissions the two tracker calls got.
Flip == Filled /\ CurrentShares * NewShares < 0 /\ Len(event.calls) = 2
LegA == Abs(CurrentShares)
LegB == Abs(NewShares)
Total == Money(event.order.commission)
Leg1Commission == event.calls[1].commission
Leg2Commission == event.calls[2].commission
\* c/a = c*a/(a+b) and c/b = c*b/(a+b), cleared of denominators
AgreesWithProportional ==
    /\ Leg1Commission * (LegA + LegB) = Total * LegA
    /\ Leg2Commission * (LegA + LegB) = Total * LegB

\* C17 as stated: the implemented c/a and c/b agree with the proportional
\* split only when a == b.
C17_AgreeOnlyWhenEqualLegs ==
    Flip => (AgreesWithProportional => LegA = LegB)

\* C17, amended: the legs get c/a and c/b; for a nonzero commission these
\* agree with the proportional split exactly when a = b = 2 (so only when
\* a == b, and not for every a == b), and c/a + c/b = c exactly then; for a
\* zero commission both splits are zero whatever the leg sizes.
C17_FlipCommissionArithmetic ==
    Flip =>
        /\ Leg1Commission * LegA = Total
        /\ Leg2Commission * LegB = Total
        /\ Total = 0 => AgreesWithProportional
        /\ Total # 0 =>
               /\ AgreesWithProportional <=> (LegA = 2 /\ LegB = 2)
               /\ Leg1Commission + Leg2Commission = Total <=> (LegA = 2 /\ LegB = 2)
               /\ LegA # LegB => ~AgreesWithProportional
               /\ LegA # LegB => Leg1Commission + Leg2Commission # Total

\* a flip with unequal legs and a commission, whose per-leg commissions sum
\* to more than the commission
C17_Witness ==
    /\ Flip /\ LegA = 2 /\ LegB = 1 /\ Total # 0
    /\ Leg1Commission + Leg2Commission > Total

\* the other tag of the same direction
Alias(action) ==
    IF action = BUY THEN BUY_TO_COVER
    ELSE IF action = SELL THEN SELL_SHORT
    ELSE IF action = BUY_TO_COVER THEN BUY
    ELSE IF action = SELL_SHORT THEN SELL
    ELSE action

\* the fills whose tag is swapped in every reachable state
AliasProbes ==
    [filled : {TRUE}, instrument : Instruments, action : {BUY, SELL},
     quantity : OrderQuantities, price : {1}, commission : {1}]

\* C18: in every reachable state a fill and the same fill under the other tag
\* of its direction (BUY / BUY_TO_COVER, SELL / SELL_SHORT) have the same
\* outcome: tracker calls, divisors, recorder entries, trackers and
\* accumulators. In particular a BUY_TO_COVER on a flat or long position
\* buys the whole quantity into a long, and a SELL larger than the long
\* position flips it short and completes a trade.
C18_ActionOnlyThroughSign ==
    /\ \A order \in AliasProbes :
           onOrderUpdate(Self, order)
             = onOrderUpdate(Self, [order EXCEPT !.action = Alias(@)])
    /\ event.kind = "filled" /\ event.order.action = BUY_TO_COVER
       /\ event.currentShares >= 0 =>
           /\ Shares = event.currentShares + event.order.quantity
           /\ Len(event.calls) = 1 /\ event.calls[1].op = "buy"
           /\ event.calls[1].quantity = event.order.quantity
           /\ Completed = 0
    /\ event.kind = "filled" /\ event.order.action = SELL
       /\ event.currentShares > 0
       /\ event.order.quantity > event.currentShares =>
           /\ Shares = event.currentShares - event.order.quantity
           /\ Shares < 0
           /\ Completed = 1

\* a BUY_TO_COVER increased a long position
C18_Witness ==
    /\ event.kind = "filled" /\ event.order.action = BUY_TO_COVER
    /\ event.currentShares > 0
    /\ Shares > event.currentShares
    /\ event.calls[1].op = "buy"

\* C19: when a filled order with an unrecognised action aborts, the
\* accumulators and every existing tracker are unchanged and no tracker call
\* was made; the ledger gains exactly the entry of the order's instrument
\* when it had none, and that entry is a flat, empty tracker.
C19_AbortCreatesOnlyFlatEntry ==
    [][LET e == event'
           i == e.order.instrument
       IN  /\ e.kind \in {"filled", "aborted"}
           /\ e.order.filled /\ ~Recognised(e.order)
           =>
           /\ e.kind = "aborted"
           /\ e.calls = <<>> /\ e.recorder = <<>>
           /\ UNCHANGED accumulators
           /\ \A j \in DOMAIN posTrackers : posTrackers'[j] = posTrackers[j]
           /\ DOMAIN posTrackers' = DOMAIN posTrackers \cup {i}
           /\ i \notin DOMAIN posTrackers =>
                  /\ getShares(posTrackers'[i]) = 0
                  /\ posTrackers'[i] = PositionTracker]_vars

\* an unrecognised action aborted on an instrument that had no tracker, while
\* another instrument held a position: the new entry is there and flat
C19_Witness ==
    /\ event.kind = "aborted" /\ ~event.hadTracker
    /\ event.order.instrument \in DOMAIN posTrackers
    /\ getShares(posTrackers[event.order.instrument]) = 0
    /\ \E j \in DOMAIN posTrackers : getShares(posTrackers[j]) # 0

\* the fill of the opposite direction
MirrorOrder(order) ==
    [order EXCEPT !.action = IF @ = BUY THEN SELL
                             ELSE IF @ = SELL THEN BUY
                             ELSE IF @ = BUY_TO_COVER THEN SELL_SHORT
                             ELSE IF @ = SELL_SHORT THEN BUY_TO_COVER
                             ELSE @]

MirrorCall(call) == [call EXCEPT !.op = IF @ = "buy" THEN "sell" ELSE "buy"]

MirrorStep(step) ==
    [step EXCEPT !.shares = 0 - @,
                 !.calls = [k \in DOMAIN @ |-> MirrorCall(@[k])]]

\* C20: for the fills of one instrument, the replay of the mirrored fills
\* (buys and sells swapped, same quantities, prices and commissions) has
\* after every fill the negated shares, the same number of completed trades,
\* and the same tracker calls with buy and sell swapped (same quantities and
\* per-leg commissions); neither replay raises.
C20_MirrorSymmetry ==
    \A i \in Instruments :
        LET fills == FillsOf(history, i)
            mirrored == [k \in DOMAIN fills |-> MirrorOrder(fills[k])]
            trace == Trace(Fresh, fills, i)
        IN  /\ Trace(Fresh, mirrored, i)
                 = [k \in DOMAIN trace |-> MirrorStep(trace[k])]
            /\ \A k \in DOMAIN trace : trace[k].raised = ""
            /\ fills # <<>> =>
                   /\ trace[Len(trace)].shares = getShares(posTrackers[i])
                   /\ i = event.order.instrument =>
                          trace[Len(trace)].calls = event.calls

\* one instrument went long, flipped short with a commission, and covered:
\* its mirror went short, flipped long and sold
C20_Witness ==
    /\ Len(history) = 3
    /\ \A k \in 1 .. 3 : history[k].instrument = "XYZ"
    /\ history[1].action = BUY /\ history[2].action = SELL
    /\ history[2].commission = 1 /\ history[3].action = BUY
    /\ ledger["XYZ"].flips = 1 /\ ledger["XYZ"].trades = 2
    /\ getShares(posTrackers["XYZ"]) = 0

====
